---- MODULE Spec2Model ----
(***************************************************************************)
(* The history store of json-query-tools (src/src/extension.ts): the       *)
(* persisted list of expressions kept under HISTORY_KEY in globalState,    *)
(* pushHistory with its favourite-aware eviction, and the webview message  *)
(* handlers that toggle, rename and delete entries.                        *)
(*                                                                         *)
(* A history item is a record [expr, isFavorite] or [expr, isFavorite,     *)
(* name]: an item without a name field is the JavaScript object whose      *)
(* name is undefined.  A legacy element of the persisted array is a bare   *)
(* string, written [str |-> s].  Names are sequences of characters so that *)
(* String.prototype.trim is computed, not assumed.  Indices are 1-based;   *)
(* findIndex returns 0 where JavaScript returns -1.                        *)
(*                                                                         *)
(* The repository holds two copies of the extension, src/src/extension.ts  *)
(* and src/unnamed/part_000; they differ in evaluateExpression and in      *)
(* renderList, and build says which one runs.  events holds what the       *)
(* handler that ran last posted to the webview, showed to the user, called *)
(* and left uncaught.                                                      *)
(***************************************************************************)
EXTENDS Integers, Sequences, FiniteSets, TLC

\* HISTORY_LIMIT is 200 in the source; the model scales it down.
HISTORY_LIMIT == 2

\* Longest persisted array a behaviour of SpecBlob may start from.
MaxBlobLen == 3

\* Longest history the list of the webview is rendered from.
MaxListLen == 3

\* Expression texts a message may carry.
Exprs == {"a", "b", "c"}

\* What the user may type in the rename input box: nothing, a blank, a name.
NameInputs == {<<>>, <<" ">>, <<"x">>}

\* The two copies of the extension the repository holds.
SrcBuild == "src/src/extension.ts"

Part000 == "src/unnamed/part_000"

Builds == {SrcBuild, Part000}

VARIABLES
    globalState,   \* the array stored under HISTORY_KEY
    prompt,        \* the handler suspended at showInputBox / showWarningMessage
    last,          \* the handler that ran last, and the history it read
    build,         \* the copy of the extension that runs
    events,        \* what the handler that ran last posted, showed and threw
    webview        \* the history list of the webview

vars == <<globalState, prompt, last, build, events, webview>>

----------------------------------------------------------------------------
\* Values

IsString(item) == DOMAIN item = {"str"}

HasName(item) == "name" \in DOMAIN item

\* { expr, isFavorite }
NewItem(expr, isFav) == [expr |-> expr, isFavorite |-> isFav]

\* a fresh { expr, isFavorite } in place of the item
SetFavorite_dropName(item, v) == [expr |-> item.expr, isFavorite |-> v]

\* item.isFavorite = v, every other property kept
SetFavorite(item, v) ==
    IF HasName(item)
    THEN [expr |-> item.expr, isFavorite |-> v, name |-> item.name]
    ELSE [expr |-> item.expr, isFavorite |-> v]

\* item.name = n, every other property kept
SetName(item, n) ==
    [expr |-> item.expr, isFavorite |-> item.isFavorite, name |-> n]

IsSpace(c) == c = " "

RECURSIVE trimStart(_)
trimStart(s) ==
    IF s # <<>> /\ IsSpace(Head(s)) THEN trimStart(Tail(s)) ELSE s

RECURSIVE trimEnd(_)
trimEnd(s) ==
    IF s # <<>> /\ IsSpace(s[Len(s)])
    THEN trimEnd(SubSeq(s, 1, Len(s) - 1))
    ELSE s

\* String.prototype.trim
trim(s) == trimEnd(trimStart(s))

----------------------------------------------------------------------------
\* normalizeHistory, getHistory, pushHistory

\* every element rebuilt as { expr, isFavorite }
normalizeHistory_rebuild(raw) ==
    [i \in 1..Len(raw) |->
        IF IsString(raw[i]) THEN NewItem(raw[i].str, FALSE)
        ELSE NewItem(raw[i].expr, raw[i].isFavorite)]

normalizeHistory(raw) ==
    [i \in 1..Len(raw) |->
        IF IsString(raw[i]) THEN NewItem(raw[i].str, FALSE) ELSE raw[i]]

getHistory(store) == normalizeHistory(store)

\* list.findIndex(e => e.expr === expr); 0 when there is none
findIndex(list, expr) ==
    IF \E i \in 1..Len(list) : list[i].expr = expr
    THEN CHOOSE i \in 1..Len(list) :
            /\ list[i].expr = expr
            /\ \A j \in 1..(i - 1) : list[j].expr # expr
    ELSE 0

\* splice at the position before idx
splice_offByOne(list, idx) ==
    SubSeq(list, 1, idx - 2) \o SubSeq(list, idx, Len(list))

\* list.splice(idx): everything from idx on goes
splice_toEnd(list, idx) == SubSeq(list, 1, idx - 1)

\* list.splice(idx, 1)
splice(list, idx) ==
    SubSeq(list, 1, idx - 1) \o SubSeq(list, idx + 1, Len(list))

\* every entry is written again as { expr, isFavorite }
pushEntry_rebuildAll(list, expr) ==
    LET existingIdx == findIndex(list, expr)
        isFav == IF existingIdx # 0 THEN list[existingIdx].isFavorite ELSE FALSE
        rest == IF existingIdx # 0 THEN splice(list, existingIdx) ELSE list
    IN  Append([i \in 1..Len(rest) |->
                   NewItem(rest[i].expr, rest[i].isFavorite)],
               NewItem(expr, isFav))

\* push without dropping the existing entry
pushEntry_noSplice(list, expr) ==
    LET existingIdx == findIndex(list, expr)
        isFav == IF existingIdx # 0 THEN list[existingIdx].isFavorite ELSE FALSE
    IN  Append(list, NewItem(expr, isFav))

\* lines 29-36: drop the existing entry, push { expr, isFavorite: isFav }
pushEntry(list, expr) ==
    LET existingIdx == findIndex(list, expr)
        isFav == IF existingIdx # 0 THEN list[existingIdx].isFavorite ELSE FALSE
        rest == IF existingIdx # 0 THEN splice(list, existingIdx) ELSE list
    IN  Append(rest, NewItem(expr, isFav))

\* One of the two marking loops: from index i on, while deleted < needed,
\* mark the entries whose isFavorite equals fav.  acc = [toDelete, deleted].
RECURSIVE markPass(_, _, _, _, _)
markPass(list, fav, needed, i, acc) ==
    IF i > Len(list) \/ acc.deleted >= needed
    THEN acc
    ELSE IF list[i].isFavorite = fav
         THEN markPass(list, fav, needed, i + 1,
                       [toDelete |-> acc.toDelete \cup {i},
                        deleted |-> acc.deleted + 1])
         ELSE markPass(list, fav, needed, i + 1, acc)

\* list.filter((_, i) => !toDelete.has(i))
RECURSIVE filterOut(_, _, _)
filterOut(list, toDelete, i) ==
    IF i > Len(list) THEN <<>>
    ELSE IF i \in toDelete
         THEN filterOut(list, toDelete, i + 1)
         ELSE <<list[i]>> \o filterOut(list, toDelete, i + 1)

\* one entry goes at a time, however far over the limit the list is
enforceLimit_oneOnly(list) ==
    IF Len(list) > HISTORY_LIMIT
    THEN LET first == markPass(list, FALSE, 1, 1,
                               [toDelete |-> {}, deleted |-> 0])
             second == markPass(list, TRUE, 1, 1, first)
         IN  filterOut(list, second.toDelete, 1)
    ELSE list

\* the two marking loops in the other order: favourites go first
enforceLimit_favoritesFirst(list) ==
    IF Len(list) > HISTORY_LIMIT
    THEN LET needed == Len(list) - HISTORY_LIMIT
             first == markPass(list, TRUE, needed, 1,
                               [toDelete |-> {}, deleted |-> 0])
             second == markPass(list, FALSE, needed, 1, first)
         IN  filterOut(list, second.toDelete, 1)
    ELSE list

\* the limit test off by one: a list of HISTORY_LIMIT + 1 is let through
enforceLimit_lax(list) ==
    IF Len(list) > HISTORY_LIMIT + 1
    THEN LET needed == Len(list) - HISTORY_LIMIT
             first == markPass(list, FALSE, needed, 1,
                               [toDelete |-> {}, deleted |-> 0])
             second == markPass(list, TRUE, needed, 1, first)
         IN  filterOut(list, second.toDelete, 1)
    ELSE list

\* the oldest entries go, favourite or not
enforceLimit_fifo(list) ==
    IF Len(list) > HISTORY_LIMIT
    THEN SubSeq(list, Len(list) - HISTORY_LIMIT + 1, Len(list))
    ELSE list

\* the second marking loop left out
enforceLimit_noSecondPass(list) ==
    IF Len(list) > HISTORY_LIMIT
    THEN LET needed == Len(list) - HISTORY_LIMIT
             first == markPass(list, FALSE, needed, 1,
                               [toDelete |-> {}, deleted |-> 0])
         IN  filterOut(list, first.toDelete, 1)
    ELSE list

\* lines 38-59: "Enforce limit"
enforceLimit(list) ==
    IF Len(list) > HISTORY_LIMIT
    THEN LET needed == Len(list) - HISTORY_LIMIT
             first == markPass(list, FALSE, needed, 1,
                               [toDelete |-> {}, deleted |-> 0])
             second == markPass(list, TRUE, needed, 1, first)
         IN  filterOut(list, second.toDelete, 1)
    ELSE list

\* pushHistory: the array it hands to globalState.update
pushHistory(store, expr) ==
    enforceLimit(pushEntry(normalizeHistory(store), expr))

----------------------------------------------------------------------------
\* Initial states

NoPrompt == [type |-> "none"]

\* no handler is suspended: one place per prompt a handler awaits
NoPrompts == [renameHistoryItem |-> NoPrompt, confirmDelete |-> NoPrompt]

NoName == <<>>

Record(op, expr, before, answered, newName) ==
    [op |-> op, expr |-> expr, before |-> before,
     answered |-> answered, newName |-> newName]

\* The webview before its first hydrate message.
NoList == [currentHistoryItems |-> <<>>, historySearch |-> <<>>,
           listEl |-> <<>>]

\* A fresh installation: nothing stored under HISTORY_KEY.
Init ==
    /\ globalState = <<>>
    /\ prompt = NoPrompts
    /\ last = Record("init", "", <<>>, FALSE, NoName)
    /\ build = SrcBuild
    /\ events = <<>>
    /\ webview = NoList

\* Elements of an array written by an earlier version.
BlobElems ==
    [str : Exprs] \cup [expr : Exprs, isFavorite : BOOLEAN]

Blobs == UNION {[1..n -> BlobElems] : n \in 0..MaxBlobLen}

\* An installation that already holds an array, of either element shape.
InitBlob ==
    /\ globalState \in Blobs
    /\ prompt = NoPrompts
    /\ last = Record("init", "", <<>>, FALSE, NoName)
    /\ build = SrcBuild
    /\ events = <<>>
    /\ webview = NoList

----------------------------------------------------------------------------
\* What a handler sends out

\* the snapshot misses the newest entry
HydrateMsg_missesNewest(store) ==
    [type |-> "hydrate",
     history |-> SubSeq(getHistory(store), 1, Len(store) - 1)]

\* sendHistory: postMessage({ type: 'hydrate', history: getHistory(context) })
HydrateMsg(store) == [type |-> "hydrate", history |-> getHistory(store)]

\* sendResult(stringify(result), result)
ResultMsg(text, data) == [type |-> "result", text |-> text, data |-> data]

\* the catch of the handler: postMessage({ type: 'result', error }) and
\* showErrorMessage
Caught(message) ==
    <<[type |-> "result", error |-> message],
      [type |-> "showErrorMessage", message |-> message]>>

\* the promise of globalState.update is rejected
UpdateRejected == [type |-> "updateRejected"]

WriteError == "write failed"

\* Outcomes of globalState.update: the promise resolves or is rejected.
Writes == {"ok", "rejected"}

\* entries that are neither favourites nor named are written as bare strings
Stored_legacy(store, value, write) ==
    {[i \in 1..Len(value) |->
        IF ~value[i].isFavorite /\ ~HasName(value[i])
        THEN [str |-> value[i].expr]
        ELSE value[i]]}

\* The array globalState.get returns after update(value): the value when the
\* promise resolved; after a rejection the host may hold either array.
Stored(store, value, write) ==
    IF write = "ok" THEN {value} ELSE {store, value}

----------------------------------------------------------------------------
\* evaluateExpression

\* What compiling and running a script does: new Function throws or not, the
\* compiled function throws or returns undefined, a value or a function, and
\* that function, when called, throws or returns.
Scripts ==
    {[compile |-> "throws", first |-> "none", second |-> "none"],
     [compile |-> "ok", first |-> "throws", second |-> "none"],
     [compile |-> "ok", first |-> "undefined", second |-> "none"],
     [compile |-> "ok", first |-> "value", second |-> "none"],
     [compile |-> "ok", first |-> "function", second |-> "throws"],
     [compile |-> "ok", first |-> "function", second |-> "undefined"],
     [compile |-> "ok", first |-> "function", second |-> "value"],
     [compile |-> "ok", first |-> "function", second |-> "function"]}

\* The scripts of the specifications about the store: one throws, one returns.
StoreScripts ==
    {[compile |-> "ok", first |-> "throws", second |-> "none"],
     [compile |-> "ok", first |-> "value", second |-> "none"]}

\* (data, req)
Args == <<"data", "require">>

\* a call evaluateExpression makes, with what the callee did
Call(callee, outcome) ==
    [type |-> "call", callee |-> callee, args |-> Args, outcome |-> outcome]

Threw(message, calls) ==
    [threw |-> TRUE, message |-> message, calls |-> calls, warned |-> FALSE]

\* a return, with the warning of lines 77-79 when the result is undefined
Returned(result, calls) ==
    [threw |-> FALSE, result |-> result, calls |-> calls,
     warned |-> result = "undefined"]

\* what the compiled function returns
FirstResult(script) ==
    CASE script.first = "undefined" -> "undefined"
      [] script.first = "value" -> "first value"
      [] script.first = "function" -> "first function"

\* what the function the script evaluated to returns
SecondResult(script) ==
    CASE script.second = "undefined" -> "undefined"
      [] script.second = "value" -> "second value"
      [] script.second = "function" -> "second function"

\* src/src/extension.ts lines 73-81: the result of fn(data, req) is returned
evaluateExpressionSrc(script) ==
    LET fnCall == <<Call("fn", script.first)>>
    IN  IF script.compile = "throws" THEN Threw("compile error", <<>>)
        ELSE IF script.first = "throws" THEN Threw("first error", fnCall)
        ELSE Returned(FirstResult(script), fnCall)

\* the warning is never shown
evaluateExpressionPart000_noWarning(script) ==
    LET fnCall == <<Call("fn", script.first)>>
        both == Append(fnCall, Call("firstResult", script.second))
        quiet(r) == [r EXCEPT !.warned = FALSE]
    IN  IF script.compile = "throws" THEN Threw("compile error", <<>>)
        ELSE IF script.first = "throws" THEN Threw("first error", fnCall)
        ELSE IF script.first = "function"
             THEN IF script.second = "throws"
                  THEN Threw("second error", both)
                  ELSE quiet(Returned(SecondResult(script), both))
             ELSE quiet(Returned(FirstResult(script), fnCall))

\* src/unnamed/part_000 lines 72-93: a first result that is a function is
\* called with (data, req)
evaluateExpressionPart000(script) ==
    LET fnCall == <<Call("fn", script.first)>>
        both == Append(fnCall, Call("firstResult", script.second))
    IN  IF script.compile = "throws" THEN Threw("compile error", <<>>)
        ELSE IF script.first = "throws" THEN Threw("first error", fnCall)
        ELSE IF script.first = "function"
             THEN IF script.second = "throws"
                  THEN Threw("second error", both)
                  ELSE Returned(SecondResult(script), both)
             ELSE Returned(FirstResult(script), fnCall)

evaluateExpression(b, script) ==
    IF b = SrcBuild
    THEN evaluateExpressionSrc(script)
    ELSE evaluateExpressionPart000(script)

\* stringify: JSON.stringify gives undefined for undefined and for a function
stringify(value) ==
    IF value \in {"undefined", "first function", "second function"}
    THEN "undefined"
    ELSE "json"

\* What opening the target gives: no target is bound, readJsonFromUri throws,
\* or the document parses.
Docs == {"unbound", "invalid", "json"}

\* the warning evaluateExpression shows before it returns undefined
Warnings(ev) ==
    IF ev.warned THEN <<[type |-> "showWarningMessage"]>> ELSE <<>>

----------------------------------------------------------------------------
\* Message handlers

\* what pushHistory adds to the events: its update is not awaited
PushEvents(write) == IF write = "ok" THEN <<>> ELSE <<UpdateRejected>>

\* msg.type === 'save'
Save(expr, write) ==
    /\ globalState' \in Stored(globalState, pushHistory(globalState, expr),
                               write)
    /\ last' = Record("save", expr, getHistory(globalState), TRUE, NoName)
    /\ events' = PushEvents(write) \o <<HydrateMsg(globalState')>>
    /\ UNCHANGED <<prompt, build, webview>>

\* pushHistory runs whatever msg.save is
Run_savesAlways(expr, save, script, doc, write) ==
    /\ LET ev == evaluateExpression(build, script)
           failed == doc # "json" \/ ev.threw
           message == IF doc = "unbound" THEN "no target"
                      ELSE IF doc = "invalid" THEN "not valid JSON"
                      ELSE ev.message
       IN  /\ globalState' \in
                IF ~failed
                THEN Stored(globalState, pushHistory(globalState, expr), write)
                ELSE {globalState}
           /\ last' = Record("run", expr, getHistory(globalState),
                             ~failed /\ save, NoName)
           /\ events' =
                IF doc # "json" THEN Caught(message)
                ELSE IF failed THEN ev.calls \o Caught(message)
                ELSE ev.calls \o Warnings(ev)
                     \o (IF save
                         THEN PushEvents(write) \o <<HydrateMsg(globalState')>>
                         ELSE <<>>)
                     \o <<ResultMsg(stringify(ev.result), ev.result)>>
    /\ UNCHANGED <<prompt, build, webview>>

\* msg.type === 'run': a missing target, readJsonFromUri and
\* evaluateExpression throw into the catch of the handler; pushHistory runs
\* only after evaluateExpression returned.
Run(expr, save, script, doc, write) ==
    /\ LET ev == evaluateExpression(build, script)
           failed == doc # "json" \/ ev.threw
           message == IF doc = "unbound" THEN "no target"
                      ELSE IF doc = "invalid" THEN "not valid JSON"
                      ELSE ev.message
       IN  /\ globalState' \in
                IF ~failed /\ save
                THEN Stored(globalState, pushHistory(globalState, expr), write)
                ELSE {globalState}
           /\ last' = Record("run", expr, getHistory(globalState),
                             ~failed /\ save, NoName)
           /\ events' =
                IF doc # "json" THEN Caught(message)
                ELSE IF failed THEN ev.calls \o Caught(message)
                ELSE ev.calls \o Warnings(ev)
                     \o (IF save
                         THEN PushEvents(write) \o <<HydrateMsg(globalState')>>
                         ELSE <<>>)
                     \o <<ResultMsg(stringify(ev.result), ev.result)>>
    /\ UNCHANGED <<prompt, build, webview>>

\* commandTransformWithExpression: no target shows an error, a dismissed
\* input box returns; nothing catches what readJsonFromUri or
\* evaluateExpression throws, and the promise of the command is rejected.
CommandTransform(expr, script, doc, write) ==
    /\ LET ev == evaluateExpression(build, script)
           failed == doc = "invalid" \/ ev.threw
           ran == doc # "unbound" /\ expr # "" /\ ~failed
           message == IF doc = "invalid" THEN "not valid JSON" ELSE ev.message
       IN  /\ globalState' \in
                IF ran
                THEN Stored(globalState, pushHistory(globalState, expr), write)
                ELSE {globalState}
           /\ last' = Record("transformWithExpression", expr,
                             getHistory(globalState), ran, NoName)
           /\ events' =
                IF doc = "unbound"
                THEN <<[type |-> "showErrorMessage",
                        message |-> "Open a JSON file first."]>>
                ELSE IF expr = "" THEN <<>>
                ELSE IF doc = "invalid"
                     THEN <<[type |-> "rejected", message |-> message]>>
                ELSE IF failed
                     THEN ev.calls
                          \o <<[type |-> "rejected", message |-> message]>>
                     ELSE ev.calls \o Warnings(ev) \o PushEvents(write)
                          \o <<[type |-> "showTextDocument",
                                content |-> stringify(ev.result)]>>
    /\ UNCHANGED <<prompt, build, webview>>

\* msg.type === 'toggleFavorite'
ToggleFavorite(expr, write) ==
    /\ LET history == getHistory(globalState)
           idx == findIndex(history, expr)
           toggled == [history EXCEPT
                         ![idx] = SetFavorite(@, ~history[idx].isFavorite)]
       IN  /\ globalState' \in
                IF idx # 0
                THEN Stored(globalState, toggled, write)
                ELSE {globalState}
           /\ last' = Record("toggleFavorite", expr, history, idx # 0, NoName)
           /\ events' =
                IF idx = 0 THEN <<>>
                ELSE IF write = "ok" THEN <<HydrateMsg(globalState')>>
                ELSE <<UpdateRejected>> \o Caught(WriteError)
    /\ UNCHANGED <<prompt, build, webview>>

\* msg.type === 'confirmDelete', up to the modal warning
ConfirmDeleteBegin(expr) ==
    /\ prompt.confirmDelete = NoPrompt
    /\ LET hist == getHistory(globalState)
           idx == findIndex(hist, expr)
       IN  IF idx # 0
           THEN /\ prompt' = [prompt EXCEPT !.confirmDelete =
                                 [type |-> "confirmDelete", expr |-> expr,
                                  hist |-> hist, idx |-> idx]]
                /\ last' = Record("prompt", expr, hist, FALSE, NoName)
                /\ UNCHANGED globalState
           ELSE /\ last' = Record("confirmDelete", expr, hist, FALSE, NoName)
                /\ UNCHANGED <<globalState, prompt>>
    /\ events' = <<>>
    /\ UNCHANGED <<build, webview>>

\* the modal warning returns 'Delete' (confirm) or undefined
ConfirmDeleteAnswer(confirm, write) ==
    /\ prompt.confirmDelete # NoPrompt
    /\ globalState' \in
          IF confirm
          THEN Stored(globalState, splice(prompt.confirmDelete.hist, prompt.confirmDelete.idx), write)
          ELSE {globalState}
    /\ last' = Record("confirmDelete", prompt.confirmDelete.expr, prompt.confirmDelete.hist,
                      confirm, NoName)
    /\ events' =
          IF ~confirm THEN <<>>
          ELSE IF write = "ok" THEN <<HydrateMsg(globalState')>>
          ELSE <<UpdateRejected>> \o Caught(WriteError)
    /\ prompt' = [prompt EXCEPT !.confirmDelete = NoPrompt]
    /\ UNCHANGED <<build, webview>>

\* msg.type === 'renameHistoryItem', up to the input box
RenameBegin(expr) ==
    /\ prompt.renameHistoryItem = NoPrompt
    /\ LET hist == getHistory(globalState)
           itemIdx == findIndex(hist, expr)
       IN  IF itemIdx # 0
           THEN /\ prompt' = [prompt EXCEPT !.renameHistoryItem =
                                 [type |-> "renameHistoryItem",
                                  expr |-> expr, hist |-> hist,
                                  idx |-> itemIdx]]
                /\ last' = Record("prompt", expr, hist, FALSE, NoName)
                /\ UNCHANGED globalState
           ELSE /\ last' = Record("renameHistoryItem", expr, hist,
                                  FALSE, NoName)
                /\ UNCHANGED <<globalState, prompt>>
    /\ events' = <<>>
    /\ UNCHANGED <<build, webview>>

\* the name is set, isFavorite never is
renameItem_noFav(item, newName) == SetName(item, newName)

\* the blank test inverted
renameItem_inverted(item, newName) ==
    LET named == SetName(item, newName)
    IN  IF trim(newName) = <<>> THEN SetFavorite(named, TRUE) ELSE named

\* a blank name also clears isFavorite
renameItem_unfavBlank(item, newName) ==
    LET named == SetName(item, newName)
    IN  SetFavorite(named, trim(newName) # <<>>)

\* lines 1781-1785: name = newName; a name that is not blank sets isFavorite
renameItem(item, newName) ==
    LET named == SetName(item, newName)
    IN  IF trim(newName) # <<>> THEN SetFavorite(named, TRUE) ELSE named

\* the input box returns a string
RenameAnswer(newName, write) ==
    /\ prompt.renameHistoryItem # NoPrompt
    /\ globalState' \in
          Stored(globalState,
                 [prompt.renameHistoryItem.hist EXCEPT ![prompt.renameHistoryItem.idx] = renameItem(@, newName)],
                 write)
    /\ last' = Record("renameHistoryItem", prompt.renameHistoryItem.expr, prompt.renameHistoryItem.hist,
                      TRUE, newName)
    /\ events' =
          IF write = "ok" THEN <<HydrateMsg(globalState')>>
          ELSE <<UpdateRejected>> \o Caught(WriteError)
    /\ prompt' = [prompt EXCEPT !.renameHistoryItem = NoPrompt]
    /\ UNCHANGED <<build, webview>>

\* the array read before the input box is written back and sent
RenameCancel_writes ==
    /\ prompt.renameHistoryItem # NoPrompt
    /\ globalState' = prompt.renameHistoryItem.hist
    /\ last' = Record("renameHistoryItem", prompt.renameHistoryItem.expr,
                      prompt.renameHistoryItem.hist, FALSE, NoName)
    /\ events' = <<HydrateMsg(globalState')>>
    /\ prompt' = [prompt EXCEPT !.renameHistoryItem = NoPrompt]
    /\ UNCHANGED <<build, webview>>

\* the input box is dismissed: newName === undefined
RenameCancel ==
    /\ prompt.renameHistoryItem # NoPrompt
    /\ last' = Record("renameHistoryItem", prompt.renameHistoryItem.expr, prompt.renameHistoryItem.hist,
                      FALSE, NoName)
    /\ events' = <<>>
    /\ prompt' = [prompt EXCEPT !.renameHistoryItem = NoPrompt]
    /\ UNCHANGED <<globalState, build, webview>>

\* no handler is suspended at a prompt
Idle == prompt = NoPrompts

\* The handlers run one at a time, each to its end before the next message
\* is taken, and every write succeeds.
Next ==
    \/ \E expr \in Exprs : Idle /\ Save(expr, "ok")
    \/ \E expr \in Exprs, save \in BOOLEAN, script \in StoreScripts :
            Idle /\ Run(expr, save, script, "json", "ok")
    \/ \E expr \in Exprs : Idle /\ ToggleFavorite(expr, "ok")
    \/ \E expr \in Exprs : Idle /\ ConfirmDeleteBegin(expr)
    \/ \E confirm \in BOOLEAN : ConfirmDeleteAnswer(confirm, "ok")
    \/ \E expr \in Exprs : Idle /\ RenameBegin(expr)
    \/ \E newName \in NameInputs : RenameAnswer(newName, "ok")
    \/ RenameCancel

Spec == Init /\ [][Next]_vars

\* The handlers that take no name from the user: a name plays no part in
\* normalizeHistory or in the eviction of pushHistory.
NextBlob ==
    \/ \E expr \in Exprs : Idle /\ Save(expr, "ok")
    \/ \E expr \in Exprs, save \in BOOLEAN, script \in StoreScripts :
            Idle /\ Run(expr, save, script, "json", "ok")
    \/ \E expr \in Exprs : Idle /\ ToggleFavorite(expr, "ok")
    \/ \E expr \in Exprs : Idle /\ ConfirmDeleteBegin(expr)
    \/ \E confirm \in BOOLEAN : ConfirmDeleteAnswer(confirm, "ok")

SpecBlob == InitBlob /\ [][NextBlob]_vars

\* Expressions and the name of the interleaved handlers.
ConcExprs == {"a", "b"}

ConcName == <<"x">>

\* The handlers interleave at their awaits: a run or save message is handled
\* while the input box of a rename or the warning of a delete is open, and one
\* of each may be open at once.  The array a suspended handler holds shares its
\* items with the stored array when the host hands the stored array out
\* without a copy; the two handlers that assign to an item in place
\* (toggleFavorite, the answer of a rename) are taken here only when no other
\* handler holds the item, so that what is written does not depend on that.
NextConc ==
    \/ \E expr \in ConcExprs : Save(expr, "ok")
    \/ \E expr \in ConcExprs : Idle /\ ToggleFavorite(expr, "ok")
    \/ \E expr \in ConcExprs : ConfirmDeleteBegin(expr)
    \/ \E confirm \in BOOLEAN : ConfirmDeleteAnswer(confirm, "ok")
    \/ \E expr \in ConcExprs : RenameBegin(expr)
    \/ prompt.confirmDelete = NoPrompt /\ RenameAnswer(ConcName, "ok")
    \/ RenameCancel

SpecConc == Init /\ [][NextConc]_vars

\* Either copy of the extension is the one installed.
InitOutcomes ==
    /\ globalState = <<>>
    /\ prompt = NoPrompts
    /\ last = Record("init", "", <<>>, FALSE, NoName)
    /\ build \in Builds
    /\ events = <<>>
    /\ webview = NoList

\* Expression texts of the messages whose outcomes are enumerated.
OutcomeExprs == {"a", "b"}

\* What the command's input box returns: an expression, or nothing.
CommandExprs == OutcomeExprs \cup {""}

\* The handlers and the command run one at a time, with every outcome of the
\* script, of the target document and of the write.
NextOutcomes ==
    \/ \E expr \in OutcomeExprs, write \in Writes : Idle /\ Save(expr, write)
    \/ \E expr \in OutcomeExprs, save \in BOOLEAN, script \in Scripts,
          doc \in Docs, write \in Writes :
            Idle /\ Run(expr, save, script, doc, write)
    \/ \E expr \in CommandExprs, script \in Scripts, doc \in Docs,
          write \in Writes :
            Idle /\ CommandTransform(expr, script, doc, write)
    \/ \E expr \in OutcomeExprs, write \in Writes :
            Idle /\ ToggleFavorite(expr, write)
    \/ \E expr \in OutcomeExprs : Idle /\ ConfirmDeleteBegin(expr)
    \/ \E confirm \in BOOLEAN, write \in Writes :
            ConfirmDeleteAnswer(confirm, write)
    \/ \E expr \in OutcomeExprs : Idle /\ RenameBegin(expr)
    \/ \E write \in Writes : RenameAnswer(ConcName, write)
    \/ RenameCancel

SpecOutcomes == InitOutcomes /\ [][NextOutcomes]_vars

\* Every handler that writes the store, on an array an earlier version left.
NextLegacy ==
    \/ \E expr \in Exprs : Idle /\ Save(expr, "ok")
    \/ \E expr \in Exprs : Idle /\ ToggleFavorite(expr, "ok")
    \/ \E expr \in Exprs : Idle /\ ConfirmDeleteBegin(expr)
    \/ \E confirm \in BOOLEAN : ConfirmDeleteAnswer(confirm, "ok")
    \/ \E expr \in Exprs : Idle /\ RenameBegin(expr)
    \/ RenameAnswer(ConcName, "ok")
    \/ RenameCancel

SpecLegacy == InitBlob /\ [][NextLegacy]_vars

\* Elements of a persisted array as any version may have left it: bare
\* strings, items without a name, items with an empty or a typed name.
ReadExprs == {"a", "b"}

ReadNames == {<<>>, <<"x">>}

ReadElems ==
    [str : ReadExprs]
        \cup [expr : ReadExprs, isFavorite : BOOLEAN]
        \cup [expr : ReadExprs, isFavorite : BOOLEAN, name : ReadNames]

ReadBlobs == UNION {[1..n -> ReadElems] : n \in 0..MaxBlobLen}

InitRead ==
    /\ globalState \in ReadBlobs
    /\ prompt = NoPrompts
    /\ last = Record("init", "", <<>>, FALSE, NoName)
    /\ build = SrcBuild
    /\ events = <<>>
    /\ webview = NoList

\* msg.type === 'ready': sendHistory()
Ready ==
    /\ last' = Record("ready", "", getHistory(globalState), FALSE, NoName)
    /\ events' = <<HydrateMsg(globalState)>>
    /\ UNCHANGED <<globalState, prompt, build, webview>>

NextRead == Ready

\* The panel opens on a persisted array and reads it.
SpecRead == InitRead /\ [][NextRead]_vars

----------------------------------------------------------------------------
\* The history list of the webview

\* c.toLowerCase()
Lower(c) ==
    CASE c = "A" -> "a"
      [] c = "B" -> "b"
      [] OTHER -> c

\* s.toLowerCase()
toLowerCase(s) == [i \in 1..Len(s) |-> Lower(s[i])]

\* s.includes(t)
includes(s, t) ==
    \E k \in 0..(Len(s) - Len(t)) : SubSeq(s, k + 1, k + Len(t)) = t

\* the characters of an expression text: the expressions here have one
Text(expr) == <<expr>>

\* the letter of a character and its case, as a collation orders them
Letter(c) ==
    CASE c = " " -> 0
      [] Lower(c) = "a" -> 1
      [] Lower(c) = "b" -> 2
      [] OTHER -> 3

Upper(c) == IF Lower(c) = c THEN 0 ELSE 1

\* -1, 0 or 1 as u comes before, with or after v, place by place
Lex(u, v) ==
    LET differ == {k \in 1..Len(u) : k > Len(v) \/ u[k] # v[k]}
        first == CHOOSE k \in differ : \A j \in differ : k <= j
    IN  IF differ = {}
        THEN IF Len(u) < Len(v) THEN -1 ELSE 0
        ELSE IF first > Len(v) THEN 1
        ELSE IF u[first] < v[first] THEN -1 ELSE 1

\* a.localeCompare(b): by letters first, lower case before upper on a tie
localeCompare(a, b) ==
    LET letters == Lex([i \in 1..Len(a) |-> Letter(a[i])],
                       [i \in 1..Len(b) |-> Letter(b[i])])
    IN  IF letters # 0 THEN letters
        ELSE Lex([i \in 1..Len(a) |-> Upper(a[i])],
                 [i \in 1..Len(b) |-> Upper(b[i])])

\* (name || '').trim()
TrimmedName(item) == IF HasName(item) THEN trim(item.name) ELSE <<>>

\* the comparator of favorites.sort
compare(a, b) ==
    LET nameA == TrimmedName(a)
        nameB == TrimmedName(b)
    IN  IF nameA # <<>> /\ nameB # <<>> THEN localeCompare(nameA, nameB)
        ELSE IF nameA # <<>> THEN -1
        ELSE IF nameB # <<>> THEN 1
        ELSE 0

\* Array.prototype.sort is stable: an element goes after those that compare
\* before it or equal to it
RECURSIVE sort(_)
sort(list) ==
    IF list = <<>> THEN <<>>
    ELSE LET n == Len(list)
             sorted == sort(SubSeq(list, 1, n - 1))
             k == Cardinality({i \in 1..(n - 1) :
                                 compare(sorted[i], list[n]) <= 0})
         IN  SubSeq(sorted, 1, k) \o <<list[n]>> \o SubSeq(sorted, k + 1, n - 1)

\* others.reverse()
reverse(list) == [i \in 1..Len(list) |-> list[Len(list) + 1 - i]]

\* the div shown when nothing passes the filter
EmptyState(searchTerm) ==
    [emptyState |-> IF searchTerm # <<>>
                    THEN "No matching history found."
                    ELSE "No history yet. Save expressions to see them here."]

\* the snapshot is put in the order shown
renderList_sortsSnapshot(w, items, b) ==
    LET searchTerm == trim(toLowerCase(w.historySearch))
        matches(item) ==
            \/ searchTerm = <<>>
            \/ includes(toLowerCase(Text(item.expr)), searchTerm)
            \/ /\ HasName(item)
               /\ item.name # <<>>
               /\ includes(toLowerCase(item.name), searchTerm)
        filteredItems == SelectSeq(items, matches)
        favorites == SelectSeq(items, LAMBDA item : item.isFavorite)
        others == SelectSeq(items, LAMBDA item : ~item.isFavorite)
        shown(list) == SelectSeq(list, matches)
    IN  [currentHistoryItems |->
            sort(favorites)
                \o (IF b = Part000 THEN reverse(others) ELSE others),
         historySearch |-> w.historySearch,
         listEl |->
            IF filteredItems = <<>> THEN <<EmptyState(searchTerm)>>
            ELSE shown(sort(favorites))
                 \o (IF b = Part000 THEN reverse(shown(others))
                     ELSE shown(others))]

\* the names are not searched
renderList_exprOnly(w, items, b) ==
    LET searchTerm == trim(toLowerCase(w.historySearch))
        matches(item) ==
            \/ searchTerm = <<>>
            \/ includes(toLowerCase(Text(item.expr)), searchTerm)
        filteredItems == SelectSeq(items, matches)
        favorites == SelectSeq(filteredItems, LAMBDA item : item.isFavorite)
        others == SelectSeq(filteredItems, LAMBDA item : ~item.isFavorite)
    IN  [currentHistoryItems |-> items,
         historySearch |-> w.historySearch,
         listEl |->
            IF filteredItems = <<>> THEN <<EmptyState(searchTerm)>>
            ELSE sort(favorites)
                 \o (IF b = Part000 THEN reverse(others) ELSE others)]

\* renderList(items), of the copy b of the extension: listEl holds the items
\* in the order of their divs
renderList(w, items, b) ==
    LET searchTerm == trim(toLowerCase(w.historySearch))
        matches(item) ==
            \/ searchTerm = <<>>
            \/ includes(toLowerCase(Text(item.expr)), searchTerm)
            \/ /\ HasName(item)
               /\ item.name # <<>>
               /\ includes(toLowerCase(item.name), searchTerm)
        filteredItems == SelectSeq(items, matches)
        favorites == SelectSeq(filteredItems, LAMBDA item : item.isFavorite)
        others == SelectSeq(filteredItems, LAMBDA item : ~item.isFavorite)
    IN  [currentHistoryItems |-> items,
         historySearch |-> w.historySearch,
         listEl |->
            IF filteredItems = <<>> THEN <<EmptyState(searchTerm)>>
            ELSE sort(favorites)
                 \o (IF b = Part000 THEN reverse(others) ELSE others)]

\* Names of the entries of a listed history.
ListNames == {<<"a">>, <<"B">>, <<" ">>}

ListExprs == {"a", "b"}

\* Entries of a listed history: plain, favourite, named favourite, and named
\* without the flag.
ListItems ==
    [expr : ListExprs, isFavorite : BOOLEAN]
        \cup [expr : ListExprs, isFavorite : {TRUE}, name : ListNames]
        \cup [expr : ListExprs, isFavorite : {FALSE}, name : {<<"a">>}]

ListHistories == UNION {[1..n -> ListItems] : n \in 0..MaxListLen}

\* What is typed in the search box.
SearchTerms == {<<>>, <<"A">>, <<" ">>}

InitList ==
    /\ globalState \in ListHistories
    /\ prompt = NoPrompts
    /\ last = Record("init", "", <<>>, FALSE, NoName)
    /\ build \in Builds
    /\ events = <<>>
    /\ webview = NoList

\* window 'message' listener of the webview: msg.type === 'hydrate'
OnHydrate ==
    /\ events # <<>>
    /\ events[1].type = "hydrate"
    /\ webview' = renderList(webview, events[1].history, build)
    /\ last' = Record("hydrate", "", last.before, FALSE, NoName)
    /\ events' = <<>>
    /\ UNCHANGED <<globalState, prompt, build>>

\* historySearch 'input' listener
SearchInput(term) ==
    /\ webview' = renderList([webview EXCEPT !.historySearch = term],
                             webview.currentHistoryItems, build)
    /\ last' = Record("input", "", last.before, FALSE, NoName)
    /\ UNCHANGED <<globalState, prompt, build, events>>

NextList ==
    \/ Ready
    \/ OnHydrate
    \/ \E term \in SearchTerms : SearchInput(term)

\* The panel opens on a stored history, shows it and filters it.
SpecList == InitList /\ [][NextList]_vars

----------------------------------------------------------------------------
\* Vocabulary of the properties

\* the last handler called pushHistory(last.expr)
Upserted == last.op \in {"save", "run"} /\ last.answered

\* positions of expr in a list
Positions(list, expr) == {i \in 1..Len(list) : list[i].expr = expr}

NonFavorites(list) == {i \in 1..Len(list) : ~list[i].isFavorite}

Favorites(list) == {i \in 1..Len(list) : list[i].isFavorite}

\* the n oldest positions of a set of positions
Oldest(S, n) == {i \in S : Cardinality({j \in S : j < i}) < n}

\* the n-th smallest position of a set of positions
Nth(S, n) == CHOOSE i \in S : Cardinality({j \in S : j <= i}) = n

\* the list without the positions of gone, order kept
Without(list, gone) ==
    LET kept == (1..Len(list)) \ gone
    IN  [n \in 1..Cardinality(kept) |-> list[Nth(kept, n)]]

\* a name that is more than whitespace
NonBlank(name) == \E i \in 1..Len(name) : name[i] # " "

\* the name the list shows for an item: none and the empty name are alike
NameOf(item) == IF HasName(item) THEN item.name ELSE <<>>

\* the list as it stands after the insertion of pushHistory, before eviction
Inserted == pushEntry(last.before, last.expr)

\* by how many entries the insertion went over capacity
Over == Len(Inserted) - HISTORY_LIMIT

\* the last handler renamed an entry to last.newName
Renamed == last.op = "renameHistoryItem" /\ last.answered

----------------------------------------------------------------------------
\* C1: the store never holds two entries with the same expression.
C1_Dedup ==
    \A i, j \in 1..Len(globalState) :
        i # j => globalState[i].expr # globalState[j].expr

\* an expression already stored next to another one was pushed again
C1_Witness ==
    /\ Upserted
    /\ Positions(last.before, last.expr) # {}
    /\ Len(last.before) >= 2
    /\ Len(globalState) >= 2

\* C2: the store never holds more than HISTORY_LIMIT entries.
C2_Capacity == Len(globalState) <= HISTORY_LIMIT

\* a new expression was pushed onto a full store
C2_Witness ==
    /\ Upserted
    /\ Len(last.before) = HISTORY_LIMIT
    /\ Positions(last.before, last.expr) = {}
    /\ Len(globalState) = HISTORY_LIMIT

\* C3: pushing an expression that is stored moves its entry to the tail
\* with its isFavorite flag and its name unchanged.
C3_BumpKeepsFlagAndName ==
    (Upserted /\ Positions(last.before, last.expr) # {}) =>
        /\ globalState # <<>>
        /\ \E i \in Positions(last.before, last.expr) :
              LET tail == globalState[Len(globalState)]
                  old == last.before[i]
              IN  /\ tail.expr = old.expr
                  /\ tail.isFavorite = old.isFavorite
                  /\ NameOf(tail) = NameOf(old)

\* C4: when a push goes over capacity by k and at least k entries are not
\* favourites, exactly the k oldest of them are removed and every favourite
\* stays.
C4_SoftProtection ==
    (Upserted /\ Over >= 1 /\ Cardinality(NonFavorites(Inserted)) >= Over) =>
        /\ globalState = Without(Inserted, Oldest(NonFavorites(Inserted), Over))
        /\ \A i \in Favorites(Inserted) :
              \E j \in 1..Len(globalState) : globalState[j] = Inserted[i]
        /\ Len(globalState) = Len(Inserted) - Over

\* two entries were evicted past a favourite that is older than one of them
C4_Witness ==
    /\ Upserted
    /\ Over >= 2
    /\ Cardinality(NonFavorites(Inserted)) >= Over
    /\ \E f \in Favorites(Inserted) :
          \E i \in Oldest(NonFavorites(Inserted), Over) : f < i

\* C5: when a push goes over capacity by k and fewer than k entries are not
\* favourites, all of those are removed and the rest of the k removals are
\* the oldest favourites.
C5_HardBypass ==
    (Upserted /\ Over >= 1 /\ Cardinality(NonFavorites(Inserted)) < Over) =>
        LET nonFav == NonFavorites(Inserted)
            gone == nonFav \cup
                    Oldest(Favorites(Inserted), Over - Cardinality(nonFav))
        IN  /\ globalState = Without(Inserted, gone)
            /\ Cardinality(gone) = Over
            /\ Len(globalState) = HISTORY_LIMIT

\* an entry that is no favourite and a favourite older than a surviving
\* favourite were both evicted
C5_Witness ==
    /\ Upserted
    /\ Over >= 2
    /\ Cardinality(NonFavorites(Inserted)) \in 1..(Over - 1)
    /\ Len(globalState) = HISTORY_LIMIT
    /\ \A j \in 1..Len(globalState) : globalState[j].isFavorite

\* C6: a push of x right after a push of x leaves the store as the first
\* push left it; a push onto the empty store leaves x alone in it.
C6_BumpIdempotent ==
    /\ [][(Upserted /\ Upserted' /\ last'.expr = last.expr)
            => globalState' = globalState]_vars
    /\ [](Upserted /\ last.before = <<>>
            => globalState = <<[expr |-> last.expr, isFavorite |-> FALSE]>>)

\* the second of two pushes of an expression that has a neighbour: the push
\* read the store it wrote
C6_Witness ==
    /\ Upserted
    /\ last.before = globalState
    /\ Len(globalState) >= 2
    /\ globalState[Len(globalState)].expr = last.expr

\* C7 as stated: every entry with a name that is not empty is a favourite.
C7_NamedIsFavorite ==
    \A i \in 1..Len(globalState) :
        NameOf(globalState[i]) # <<>> => globalState[i].isFavorite

NamedNotFavorite(item) == NonBlank(NameOf(item)) /\ ~item.isFavorite

\* C7 as amended: an entry whose name is more than whitespace is a
\* favourite unless toggleFavorite took the flag off it: a step leaves such
\* an entry without the flag only if the entry was so before the step, or
\* the step is toggleFavorite of that entry, until then a favourite.
C7_NamedUnfavoritedOnlyByToggle ==
    [][\A i \in 1..Len(globalState') :
          NamedNotFavorite(globalState'[i]) =>
              \/ \E j \in 1..Len(globalState) :
                    globalState[j] = globalState'[i]
              \/ /\ last'.op = "toggleFavorite"
                 /\ last'.expr = globalState'[i].expr
                 /\ i <= Len(globalState)
                 /\ globalState[i].expr = globalState'[i].expr
                 /\ globalState[i].isFavorite
                 /\ NameOf(globalState[i]) = NameOf(globalState'[i])]_vars

\* toggleFavorite has just taken the flag off a named entry
C7_Witness ==
    /\ last.op = "toggleFavorite"
    /\ \E i \in Positions(globalState, last.expr) :
          /\ NamedNotFavorite(globalState[i])
          /\ last.before[i].isFavorite

\* C8 as stated: a rename to any name of length > 0 stores the name and
\* makes the entry a favourite.
C8_RenameForcesFavorite ==
    (Renamed /\ last.newName # <<>>) =>
        \E i \in Positions(globalState, last.expr) :
            /\ NameOf(globalState[i]) = last.newName
            /\ globalState[i].isFavorite

\* C8 as amended: a rename to a name that is more than whitespace stores
\* the name as typed and makes the entry a favourite.
C8_RenameNonBlankForcesFavorite ==
    (Renamed /\ NonBlank(last.newName)) =>
        \E i \in Positions(globalState, last.expr) :
            /\ HasName(globalState[i])
            /\ globalState[i].name = last.newName
            /\ globalState[i].isFavorite

\* an entry that was no favourite was given a name
C8_Witness ==
    /\ Renamed
    /\ NonBlank(last.newName)
    /\ \E i \in Positions(last.before, last.expr) :
          ~last.before[i].isFavorite

\* C9: a rename to the empty name empties the name of the entry and leaves
\* its flag, its position and every other entry as they were.
C9_RenameEmptyKeepsEntry ==
    (Renamed /\ last.newName = <<>>) =>
        /\ Len(globalState) = Len(last.before)
        /\ \A i \in 1..Len(globalState) :
              /\ globalState[i].expr = last.before[i].expr
              /\ globalState[i].isFavorite = last.before[i].isFavorite
              /\ IF last.before[i].expr = last.expr
                 THEN NameOf(globalState[i]) = <<>>
                 ELSE globalState[i] = last.before[i]

\* the name of a named favourite that is not the last entry was emptied
C9_Witness ==
    /\ Renamed
    /\ last.newName = <<>>
    /\ Len(last.before) >= 2
    /\ last.before[1].expr = last.expr
    /\ last.before[1].isFavorite
    /\ NonBlank(NameOf(last.before[1]))

\* C10: toggleFavorite flips the flag of the entry of its expression and
\* nothing else; with no such entry the store is as it was.
C10_ToggleFlipsOnly ==
    last.op = "toggleFavorite" =>
        /\ Len(globalState) = Len(last.before)
        /\ \A i \in 1..Len(globalState) :
              /\ globalState[i].expr = last.before[i].expr
              /\ HasName(globalState[i]) = HasName(last.before[i])
              /\ NameOf(globalState[i]) = NameOf(last.before[i])
              /\ globalState[i].isFavorite =
                    IF last.before[i].expr = last.expr
                    THEN ~last.before[i].isFavorite
                    ELSE last.before[i].isFavorite

\* the flag of a named entry was flipped next to another entry
C10_Witness ==
    /\ last.op = "toggleFavorite"
    /\ Len(last.before) >= 2
    /\ \E i \in Positions(last.before, last.expr) :
          NonBlank(NameOf(last.before[i]))

\* C11: a confirmed delete removes the entry of its expression, favourite or
\* not, and nothing else, the rest keeping its order; with no such entry the
\* store is as it was.
C11_DeleteRemovesOnlyEntry ==
    last.op = "confirmDelete" =>
        /\ last.answered =>
              /\ Positions(last.before, last.expr) # {}
              /\ globalState =
                    Without(last.before, Positions(last.before, last.expr))
              /\ Len(globalState) = Len(last.before) - 1
        /\ Positions(last.before, last.expr) = {} =>
              globalState = last.before

\* a favourite that is not the last entry was deleted
C11_Witness ==
    /\ last.op = "confirmDelete"
    /\ last.answered
    /\ Len(last.before) >= 2
    /\ last.before[1].expr = last.expr
    /\ last.before[1].isFavorite
    /\ globalState = <<last.before[2]>> \o SubSeq(last.before, 3, Len(last.before))

\* the step ends a handler that wrote the store
Wrote == last'.answered /\ last'.op # "prompt"

\* the single change of a handler, applied to list
Applied(list, op, expr, newName) ==
    LET idx == findIndex(list, expr)
    IN  CASE op \in {"save", "run", "transformWithExpression"} ->
                enforceLimit(pushEntry(list, expr))
          [] op = "toggleFavorite" ->
                IF idx = 0 THEN list
                ELSE [list EXCEPT ![idx] = SetFavorite(@, ~list[idx].isFavorite)]
          [] op = "confirmDelete" ->
                IF idx = 0 THEN list ELSE splice(list, idx)
          [] op = "renameHistoryItem" ->
                IF idx = 0 THEN list
                ELSE [list EXCEPT ![idx] = renameItem(@, newName)]

\* C12: no lost updates: whatever the interleaving of the handlers, a handler
\* that writes the store writes its single change applied to the array that is
\* persisted when it writes.
C12_NoLostUpdates ==
    [][Wrote =>
          globalState' = Applied(getHistory(globalState), last'.op,
                                 last'.expr, last'.newName)]_vars

\* C13: a toggleFavorite, rename or delete of an expression that has no entry
\* in the persisted array when the handler ends leaves the array as it is and
\* reports no error: a deleted entry does not come back.
C13_NotFoundIsNoOp ==
    [][(/\ last'.op \in {"toggleFavorite", "renameHistoryItem",
                         "confirmDelete"}
        /\ Positions(getHistory(globalState), last'.expr) = {})
       => /\ globalState' = globalState
          /\ \A i \in 1..Len(events') : events'[i].type # "showErrorMessage"]_vars

\* the handler that ran last sent, showed or met an event of this type
HasEvent(type) == \E i \in 1..Len(events) : events[i].type = type

\* the result messages that carry an error
ErrorResults ==
    {i \in 1..Len(events) :
        events[i].type = "result" /\ "error" \in DOMAIN events[i]}

\* C14: when the write of a mutating operation fails, the handler reports an
\* error to the UI and does not go on as if the mutation had succeeded.
C14_WriteFailureReported ==
    HasEvent("updateRejected") =>
        /\ ErrorResults # {}
        /\ ~HasEvent("hydrate")

\* what a throwing script throws, at compilation or at either execution step
EvalErrors == {"compile error", "first error", "second error"}

\* the evaluation of the handler or command that ran last threw
EvalThrew ==
    \E i \in 1..Len(events) :
        /\ events[i].type \in {"showErrorMessage", "rejected"}
        /\ events[i].message \in EvalErrors

\* C15: when the evaluation throws, in the run handler or in the transform
\* command, an error result carrying the message is sent and the store is
\* left as it was.
C15_EvaluationErrorContained ==
    [][EvalThrew' =>
          /\ \E i \in ErrorResults' : events'[i].error \in EvalErrors
          /\ globalState' = globalState]_vars

\* the calls evaluateExpression made, in order
Calls == SelectSeq(events, LAMBDA e : e.type = "call")

\* the value a call returned
ValueOf(call) ==
    CASE call.outcome = "undefined" -> "undefined"
      [] call.outcome = "value" /\ call.callee = "fn" -> "first value"
      [] call.outcome = "value" /\ call.callee # "fn" -> "second value"
      [] call.outcome = "function" /\ call.callee = "fn" -> "first function"
      [] call.outcome = "function" /\ call.callee # "fn" -> "second function"
      [] OTHER -> "none"

\* the data of the result message of a run
ResultData ==
    {events[i].data : i \in {j \in 1..Len(events) :
                               events[j].type = "result"} \ ErrorResults}

\* C16: the compiled script runs once; a first result that is a function is
\* called exactly once, with the same (data, require), and what it returns is
\* the final result; any other first result is the final result.
C16_IndirectInvocation ==
    Calls # <<>> =>
        /\ Calls[1].callee = "fn"
        /\ \A i \in 2..Len(Calls) : Calls[i].callee # "fn"
        /\ IF Calls[1].outcome = "function"
           THEN /\ Len(Calls) = 2
                /\ Calls[2].callee = "firstResult"
                /\ Calls[2].args = Calls[1].args
                /\ ResultData \subseteq {ValueOf(Calls[2])}
           ELSE /\ Len(Calls) = 1
                /\ ResultData \subseteq {ValueOf(Calls[1])}

\* the evaluation returned, and returned undefined
FinalUndefined ==
    /\ Calls # <<>>
    /\ Calls[Len(Calls)].outcome = "undefined"

\* C17: an evaluation whose final result is undefined shows the warning and
\* returns normally; the run handler sends a result message with no error
\* field, and with save set the expression is upserted all the same.
C17_EmptyResultIsWarning ==
    /\ (last.op \in {"run", "transformWithExpression"} /\ FinalUndefined) =>
          /\ HasEvent("showWarningMessage")
          /\ ~HasEvent("showErrorMessage") /\ ~HasEvent("rejected")
          /\ ErrorResults = {}
    /\ (last.op = "run" /\ FinalUndefined) =>
          /\ ResultData = {"undefined"}
          /\ last.answered =>
                /\ HasEvent("hydrate")
                /\ ~HasEvent("updateRejected") =>
                      globalState = enforceLimit(pushEntry(last.before,
                                                           last.expr))

C17_Witness ==
    /\ last.op = "run"
    /\ last.answered
    /\ build = Part000
    /\ Len(Calls) = 2
    /\ FinalUndefined
    /\ HasEvent("showWarningMessage")
    /\ ResultData = {"undefined"}
    /\ Positions(globalState, last.expr) = {Len(globalState)}
    /\ Positions(last.before, last.expr) = {}

\* C18: reading the persisted array gives, place by place, { expr: s,
\* isFavorite: false } for a bare string s and the entry itself, with all its
\* fields, for a structured entry; the length and the order are kept, and
\* normalizing what was read changes nothing.
C18_NormalizeLegacy ==
    last.op = "ready" =>
        LET history == events[1].history
        IN  /\ Len(history) = Len(globalState)
            /\ \A i \in 1..Len(globalState) :
                  IF IsString(globalState[i])
                  THEN history[i] = [expr |-> globalState[i].str,
                                     isFavorite |-> FALSE]
                  ELSE history[i] = globalState[i]
            /\ normalizeHistory(history) = history
            /\ normalizeHistory(normalizeHistory(globalState)) = history

C18_Witness ==
    /\ last.op = "ready"
    /\ Len(globalState) = 3
    /\ globalState[1] = [str |-> "a"]
    /\ globalState[2] = [expr |-> "b", isFavorite |-> TRUE, name |-> <<"x">>]
    /\ globalState[3] = [str |-> "b"]
    /\ events[1].history[1] = [expr |-> "a", isFavorite |-> FALSE]
    /\ events[1].history[2] = globalState[2]
    /\ events[1].history[3] = [expr |-> "b", isFavorite |-> FALSE]

\* C19: whatever array was persisted before, bare strings included, after a
\* handler has written the store (upsert, toggleFavorite of a found entry,
\* rename, delete) no element of the persisted array is a bare string.
C19_NoBareStringsWritten ==
    (last.answered /\ last.op \notin {"init", "prompt"}) =>
        \A i \in 1..Len(globalState) :
            /\ ~IsString(globalState[i])
            /\ {"expr", "isFavorite"} \subseteq DOMAIN globalState[i]

C19_Witness ==
    /\ last.op = "toggleFavorite"
    /\ last.answered
    /\ Len(globalState) = 3
    /\ globalState[1] = [expr |-> "a", isFavorite |-> FALSE]
    /\ globalState[2] = [expr |-> "b", isFavorite |-> TRUE]
    /\ globalState[3] = [expr |-> "a", isFavorite |-> FALSE]

\* the list shows the history, nothing filtered out
Listed ==
    /\ webview.historySearch = <<>>
    /\ webview.currentHistoryItems # <<>>
    /\ last.op \in {"hydrate", "input"}

\* a favourite with a name that is more than blanks
NamedFavorite(item) == item.isFavorite /\ NonBlank(NameOf(item))

UnnamedFavorite(item) == item.isFavorite /\ ~NonBlank(NameOf(item))

\* C20: the list shows the favourites before the others; the named favourites
\* first, in alphabetical order of name, then the unnamed favourites in their
\* stored order; then the entries that are not favourites, the newest first.
C20_PresentationOrder ==
    Listed =>
        LET items == webview.currentHistoryItems
            shown == webview.listEl
        IN  /\ Len(shown) = Len(items)
            /\ \A i, j \in 1..Len(shown) :
                  i < j =>
                     /\ shown[j].isFavorite => shown[i].isFavorite
                     /\ NamedFavorite(shown[j]) => NamedFavorite(shown[i])
                     /\ NamedFavorite(shown[j]) =>
                           localeCompare(trim(shown[i].name),
                                         trim(shown[j].name)) <= 0
            /\ SelectSeq(shown, UnnamedFavorite)
                  = SelectSeq(items, UnnamedFavorite)
            /\ SelectSeq(shown, LAMBDA item : ~item.isFavorite)
                  = reverse(SelectSeq(items, LAMBDA item : ~item.isFavorite))

\* the list has been rendered
Rendered == last.op \in {"hydrate", "input"}

\* the items of the divs of the list, none when the empty state is shown
ShownItems ==
    IF webview.listEl # <<>> /\ "emptyState" \in DOMAIN webview.listEl[1]
    THEN <<>>
    ELSE webview.listEl

\* how many times x occurs in list
Count(list, x) == Cardinality({i \in 1..Len(list) : list[i] = x})

\* the expression or the name of the item contains text, whatever the case
Contains(item, text) ==
    \/ includes(toLowerCase(Text(item.expr)), toLowerCase(text))
    \/ includes(toLowerCase(NameOf(item)), toLowerCase(text))

\* what is shown is what of the snapshot passes the test, each as many times
ShowsExactly(Test(_)) ==
    \A x \in ListItems :
        Count(ShownItems, x) =
            IF Test(x) THEN Count(webview.currentHistoryItems, x) ELSE 0

C22_RenderIsPureView ==
    [][last'.op \in {"hydrate", "input"} =>
          /\ globalState' = globalState
          /\ last'.op = "hydrate" =>
                webview'.currentHistoryItems = events[1].history
          /\ last'.op = "input" =>
                webview'.currentHistoryItems = webview.currentHistoryItems
          /\ renderList(webview', webview'.currentHistoryItems, build')
                = webview']_vars

C22_Witness ==
    /\ last.op = "input"
    /\ webview.historySearch = <<" ">>
    /\ webview.currentHistoryItems =
          <<[expr |-> "b", isFavorite |-> FALSE],
            [expr |-> "a", isFavorite |-> FALSE],
            [expr |-> "a", isFavorite |-> TRUE]>>
    /\ webview.listEl[1] = [expr |-> "a", isFavorite |-> TRUE]
    /\ globalState = webview.currentHistoryItems

C24_OversizedBlobCutToCapacity ==
    (Upserted /\ Len(last.before) > HISTORY_LIMIT) =>
        /\ Len(globalState) = HISTORY_LIMIT
        /\ Len(Inserted) - Len(globalState) = Over
        /\ \E gone \in SUBSET (1..Len(Inserted)) :
              /\ Cardinality(gone) = Over
              /\ globalState = Without(Inserted, gone)

C24_Witness ==
    /\ Upserted
    /\ Len(last.before) = HISTORY_LIMIT + 1
    /\ Positions(last.before, last.expr) = {}
    /\ Over = 2
    /\ Len(globalState) = HISTORY_LIMIT
    /\ globalState[1] = last.before[Len(last.before)]
    /\ globalState[1].isFavorite

\* C25: after an upsert on any persisted array, one with several entries of
\* the expression included, the store holds exactly one entry of it.
C25_UpsertLeavesOneEntry ==
    Upserted => Cardinality(Positions(globalState, last.expr)) = 1

\* C26: after every upsert, whatever the store held, a store of HISTORY_LIMIT
\* favourites included, the expression has an entry and it is the last one.
C26_UpsertedIsLast ==
    Upserted =>
        /\ globalState # <<>>
        /\ globalState[Len(globalState)].expr = last.expr

\* the expressions of the favourites of a list
FavoriteExprs(list) == {list[i].expr : i \in Favorites(list)}

\* C27: from the empty store on, an upsert never evicts a favourite: the
\* non-favourites are enough for the first marking loop, every favourite
\* entry is still stored and the favourite expressions are the same as before.
C27_UpsertKeepsFavorites ==
    Upserted =>
        /\ Over > 0 => Cardinality(NonFavorites(Inserted)) >= Over
        /\ \A i \in Favorites(Inserted) :
              \E j \in 1..Len(globalState) : globalState[j] = Inserted[i]
        /\ FavoriteExprs(globalState) = FavoriteExprs(last.before)

C27_Witness ==
    /\ Upserted
    /\ Over = 1
    /\ Len(last.before) = HISTORY_LIMIT
    /\ last.before[1].isFavorite
    /\ ~last.before[2].isFavorite
    /\ Positions(last.before, last.expr) = {}
    /\ globalState[1] = last.before[1]
    /\ globalState[Len(globalState)].expr = last.expr

\* the entries of a list that are not entries of expr
Others(list, expr) == SelectSeq(list, LAMBDA item : item.expr # expr)

\* C28: an upsert leaves every surviving entry of another expression as it
\* was, expression, flag and name, and in the same relative order.
C28_UpsertKeepsOthers ==
    Upserted =>
        LET before == Others(last.before, last.expr)
        IN  \E gone \in SUBSET (1..Len(before)) :
                Others(globalState, last.expr) = Without(before, gone)

C28_Witness ==
    /\ Upserted
    /\ Len(last.before) = HISTORY_LIMIT
    /\ Positions(last.before, last.expr) = {1}
    /\ HasName(last.before[2])
    /\ NonBlank(last.before[2].name)
    /\ globalState[1] = last.before[2]
    /\ globalState[2].expr = last.expr

\* C29: when the delete warning is dismissed or the rename input box is
\* cancelled, the handler writes nothing: the persisted array is the one the
\* handler found, element for element, and no hydrate message is sent.
C29_DismissWritesNothing ==
    [][(/\ last'.op \in {"confirmDelete", "renameHistoryItem"}
        /\ ~last'.answered
        /\ prompt # NoPrompts)
       => /\ globalState' = globalState
          /\ getHistory(globalState') = last'.before
          /\ \A i \in 1..Len(events') : events'[i].type # "hydrate"]_vars

C29_Witness ==
    /\ last.op = "confirmDelete"
    /\ ~last.answered
    /\ Positions(last.before, last.expr) = {2}
    /\ Len(globalState) = 3
    /\ IsString(globalState[2])
    /\ events = <<>>
    /\ prompt = NoPrompts

\* the handler that ran last changed the store
Changed ==
    /\ last.op \in {"run", "save", "toggleFavorite", "renameHistoryItem",
                    "confirmDelete"}
    /\ last.answered
    /\ globalState # last.before

\* places of the messages of a type among the events
EventsOf(type) == {i \in 1..Len(events) : events[i].type = type}

\* C30: after a message that changed the store a hydrate message has been
\* sent whose snapshot holds the change: the upserted expression at the tail,
\* the flipped flag, the new name, or no entry of the deleted expression; a
\* run with save sends it before its result message.
C30_HydrateCarriesChange ==
    Changed =>
        /\ Cardinality(EventsOf("hydrate")) = 1
        /\ LET history == events[CHOOSE i \in EventsOf("hydrate") : TRUE].history
               idx == findIndex(last.before, last.expr)
           IN  /\ history = getHistory(globalState)
               /\ last.op \in {"run", "save"} =>
                     history[Len(history)].expr = last.expr
               /\ last.op = "toggleFavorite" =>
                     history[idx].isFavorite = ~last.before[idx].isFavorite
               /\ last.op = "renameHistoryItem" =>
                     /\ HasName(history[idx])
                     /\ history[idx].name = last.newName
               /\ last.op = "confirmDelete" =>
                     Positions(history, last.expr) = {}
        /\ last.op = "run" =>
              \A i \in EventsOf("hydrate"), j \in EventsOf("result") : i < j

C30_Witness ==
    /\ Changed
    /\ last.op = "run"
    /\ Len(last.before) = HISTORY_LIMIT
    /\ Positions(last.before, last.expr) = {}
    /\ Len(events) = 3
    /\ events[2].type = "hydrate"
    /\ events[2].history[HISTORY_LIMIT].expr = last.expr
    /\ events[3].type = "result"

====
